---------------------------- MODULE Spec2Model ----------------------------
(***************************************************************************)
(* A model of apa_formatter.py: TextParser.parse (a line classifier that   *)
(* turns raw text into body blocks and reference lines) and APAFormatter   *)
(* (title page, body with run-in headings, references), driven by          *)
(* create_apa_document.  Strings are TLA+ strings; a character is a string *)
(* of length one.  The rendered document is the sequence of paragraphs the *)
(* formatter hands to the docx library.                                    *)
(***************************************************************************)
EXTENDS Integers, Sequences, FiniteSets, TLC

VARIABLES
    entry,              \* which public function was called
    title_data,         \* create_apa_document / create_document argument
    raw_text,           \* create_apa_document argument
    lines,              \* parse: raw_text.split('\n')
    parse_i,            \* parse: number of lines already processed (the loop's i)
    in_references,      \* parse: in_references
    current_paragraph,  \* parse: current_paragraph
    body_content,       \* parse result / create_document argument
    references,         \* parse result / create_document argument
    para_src,           \* history: line numbers of the lines in current_paragraph
    body_src,           \* history: per body block, the line numbers it was made from
    ref_src,            \* history: per reference entry, its line number
    doc_settings,       \* self.doc: which document-level settings were applied
    doc,                \* self.doc: the paragraphs added so far
    body_i,             \* _create_body: the cursor i
    saved,              \* doc.save: the file was written to output_path
    pc,                 \* position in create_apa_document / create_document
    error,              \* the exception that ended the call, or "none"
    raised_in           \* the call the exception came out of, or "none"

vars == <<entry, title_data, raw_text, lines, parse_i, in_references,
          current_paragraph, body_content, references, para_src, body_src,
          ref_src, doc_settings, doc, body_i, saved, pc, error, raised_in>>

parseVars == <<lines, parse_i, in_references, current_paragraph, body_content,
               references, para_src, body_src, ref_src>>

---------------------------------------------------------------------------
(* Bounds of the model *)

\* longest input text, in lines
MaxLines == 3

\* longest body_content handed directly to create_document
MaxBlocks == 3

\* longest references list handed directly to create_document
MaxRefs == 2

---------------------------------------------------------------------------
(* str primitives *)

\* The backquote character (U+0060).  A TLA+ string literal cannot hold it, so
\* "$" stands for it throughout; no input of the model uses "$" for itself.
Backtick == "$"

Backtick2 == Backtick \o Backtick

CharAt(s, k) == SubSeq(s, k, k)

\* The characters str.strip() removes: those for which str.isspace() holds.
\* Listed are U+0009..U+000D, U+001C..U+001F, U+0020, U+0085, U+00A0 and
\* U+1680; the other sixteen (U+2000..U+200A, U+2028, U+2029, U+202F, U+205F,
\* U+3000) cannot be written in a TLA+ string literal, so no string of the
\* model holds them.
SpaceChars ==
    { "\t", "\n", "", "\f", "\r", "", "", "", "", " ", "", " ", " " }

IsSpace(c) == c \in SpaceChars

\* The characters for which str.isupper() holds, as far as a TLA+ string
\* literal can hold them: A-Z and the upper-case letters beyond ASCII that the
\* lexer accepts inside a literal.  A character without a literal occurs in no
\* string of the model.
UpperChars ==
    { "A", "B", "C", "D", "E", "F", "G", "H", "I", "J", "K", "L", "M", "N", "O", "P", "Q", "R", "S", "T",
      "U", "V", "W", "X", "Y", "Z", "À", "Á", "Â", "Ã", "Ä", "Å", "Æ", "Ç", "È", "É", "Ê", "Ë", "Ì", "Í",
      "Î", "Ï", "Ð", "Ñ", "Ò", "Ó", "Ô", "Õ", "Ö", "Ø", "Ù", "Ú", "Û", "Ü", "Ý", "Þ", "Ɓ", "Ƃ", "Ƅ", "Ɔ",
      "Ƈ", "Ɖ", "Ɗ", "Ƌ", "Ǝ", "Ə", "Ɛ", "Ƒ", "Ɠ", "Ɣ", "Ɩ", "Ɨ", "Ƙ", "Ɯ", "Ɲ", "Ɵ", "Ơ", "Ƣ", "Ƥ", "Ʀ",
      "Ƨ", "Ʃ", "Ƭ", "Ʈ", "Ư", "Ʊ", "Ʋ", "Ƴ", "Ƶ", "Ʒ", "Ƹ", "Ƽ", "Ǆ", "Ǉ", "Ǌ", "Ǎ", "Ǐ", "Ǒ", "Ǔ", "Ǖ",
      "Ǘ", "Ǚ", "Ǜ", "Ǟ", "Ǡ", "Ǣ", "Ǥ", "Ǧ", "Ǩ", "Ǫ", "Ǭ", "Ǯ", "Ǳ", "Ǵ", "Ƕ", "Ƿ", "Ǹ", "Ǻ", "Ǽ", "Ǿ",
      "Ά", "Έ", "Ή", "Ί", "Ό", "Ύ", "Ώ", "Α", "Β", "Γ", "Δ", "Ε", "Ζ", "Η", "Θ", "Ι", "Κ", "Λ", "Μ", "Ν",
      "Ξ", "Ο", "Π", "Ρ", "Σ", "Τ", "Υ", "Φ", "Χ", "Ψ", "Ω", "Ϊ", "Ϋ", "Ϗ", "ϒ", "ϓ", "ϔ", "Ϙ", "Ϛ", "Ϝ",
      "Ϟ", "Ϡ", "Ϣ", "Ϥ", "Ϧ", "Ϩ", "Ϫ", "Ϭ", "Ϯ", "ϴ", "Ϸ", "Ϲ", "Ϻ", "Ͻ", "Ͼ", "Ͽ", "Ҁ", "Ҋ", "Ҍ", "Ҏ",
      "Ґ", "Ғ", "Ҕ", "Җ", "Ҙ", "Қ", "Ҝ", "Ҟ", "Ҡ", "Ң", "Ҥ", "Ҧ", "Ҩ", "Ҫ", "Ҭ", "Ү", "Ұ", "Ҳ", "Ҵ", "Ҷ",
      "Ҹ", "Һ", "Ҽ", "Ҿ", "Ӏ", "Ӂ", "Ӄ", "Ӆ", "Ӈ", "Ӊ", "Ӌ", "Ӎ", "Ӑ", "Ӓ", "Ӕ", "Ӗ", "Ә", "Ӛ", "Ӝ", "Ӟ",
      "Ӡ", "Ӣ", "Ӥ", "Ӧ", "Ө", "Ӫ", "Ӭ", "Ӯ", "Ӱ", "Ӳ", "Ӵ", "Ӷ", "Ӹ", "Ӻ", "Ӽ", "Ӿ", "Ⴀ", "Ⴁ", "Ⴂ", "Ⴃ",
      "Ⴄ", "Ⴅ", "Ⴆ", "Ⴇ", "Ⴈ", "Ⴉ", "Ⴊ", "Ⴋ", "Ⴌ", "Ⴍ", "Ⴎ", "Ⴏ", "Ⴐ", "Ⴑ", "Ⴒ", "Ⴓ", "Ⴔ", "Ⴕ", "Ⴖ", "Ⴗ",
      "Ⴘ", "Ⴙ", "Ⴚ", "Ⴛ", "Ⴜ", "Ⴝ", "Ⴞ", "Ⴟ", "Ⴠ", "Ⴡ", "Ⴢ", "Ⴣ", "Ⴤ", "Ⴥ", "Ⴧ", "Ⴭ", "Ꭰ", "Ꭱ", "Ꭲ", "Ꭳ",
      "Ꭴ", "Ꭵ", "Ꭶ", "Ꭷ", "Ꭸ", "Ꭹ", "Ꭺ", "Ꭻ", "Ꭼ", "Ꭽ", "Ꭾ", "Ꭿ", "Ꮀ", "Ꮁ", "Ꮂ", "Ꮃ", "Ꮄ", "Ꮅ", "Ꮆ", "Ꮇ",
      "Ꮈ", "Ꮉ", "Ꮊ", "Ꮋ", "Ꮌ", "Ꮍ", "Ꮎ", "Ꮏ", "Ꮐ", "Ꮑ", "Ꮒ", "Ꮓ", "Ꮔ", "Ꮕ", "Ꮖ", "Ꮗ", "Ꮘ", "Ꮙ", "Ꮚ", "Ꮛ",
      "Ꮜ", "Ꮝ", "Ꮞ", "Ꮟ", "Ꮠ", "Ꮡ", "Ꮢ", "Ꮣ", "Ꮤ", "Ꮥ", "Ꮦ", "Ꮧ", "Ꮨ", "Ꮩ", "Ꮪ", "Ꮫ", "Ꮬ", "Ꮭ", "Ꮮ", "Ꮯ",
      "Ꮰ", "Ꮱ", "Ꮲ", "Ꮳ", "Ꮴ", "Ꮵ", "Ꮶ", "Ꮷ", "Ꮸ", "Ꮹ", "Ꮺ", "Ꮻ", "Ꮼ", "Ꮽ", "Ꮾ", "Ꮿ", "Ᏸ", "Ᏹ", "Ᏺ", "Ᏻ",
      "Ᏼ", "Ᏽ", "Ა", "Ბ", "Გ", "Დ", "Ე", "Ვ", "Ზ", "Თ", "Ი", "Კ", "Ლ", "Მ", "Ნ", "Ო", "Პ", "Ჟ", "Რ", "Ს",
      "Ტ", "Უ", "Ფ", "Ქ", "Ღ", "Ყ", "Შ", "Ჩ", "Ც", "Ძ", "Წ", "Ჭ", "Ხ", "Ჯ", "Ჰ", "Ჱ", "Ჲ", "Ჳ", "Ჴ", "Ჵ",
      "Ჶ", "Ჷ", "Ჸ", "Ჹ", "Ჺ", "Ჽ", "Ჾ", "Ჿ", "Ẁ", "Ẃ", "Ẅ", "Ẇ", "Ẉ", "Ẋ", "Ẍ", "Ẏ", "Ẑ", "Ẓ", "Ẕ", "ẞ",
      "Ạ", "Ả", "Ấ", "Ầ", "Ẩ", "Ẫ", "Ậ", "Ắ", "Ằ", "Ẳ", "Ẵ", "Ặ", "Ẹ", "Ẻ", "Ẽ", "Ế", "Ề", "Ể", "Ễ", "Ệ",
      "Ỉ", "Ị", "Ọ", "Ỏ", "Ố", "Ồ", "Ổ", "Ỗ", "Ộ", "Ớ", "Ờ", "Ở", "Ỡ", "Ợ", "Ụ", "Ủ", "Ứ", "Ừ", "Ử", "Ữ",
      "Ự", "Ỳ", "Ỵ", "Ỷ", "Ỹ", "Ỻ", "Ỽ", "Ỿ", "Ᾰ", "Ᾱ", "Ὰ", "Ά", "Ὲ", "Έ", "Ὴ", "Ή", "Ῐ", "Ῑ", "Ὶ", "Ί",
      "Ῠ", "Ῡ", "Ὺ", "Ύ", "Ῥ", "Ὸ", "Ό", "Ὼ", "Ώ", "Ↄ", "Ⓐ", "Ⓑ", "Ⓒ", "Ⓓ", "Ⓔ", "Ⓕ", "Ⓖ", "Ⓗ", "Ⓘ", "Ⓙ",
      "Ⓚ", "Ⓛ", "Ⓜ", "Ⓝ", "Ⓞ", "Ⓟ", "Ⓠ", "Ⓡ", "Ⓢ", "Ⓣ", "Ⓤ", "Ⓥ", "Ⓦ", "Ⓧ", "Ⓨ", "Ⓩ", "Ⲁ", "Ⲃ", "Ⲅ", "Ⲇ",
      "Ⲉ", "Ⲋ", "Ⲍ", "Ⲏ", "Ⲑ", "Ⲓ", "Ⲕ", "Ⲗ", "Ⲙ", "Ⲛ", "Ⲝ", "Ⲟ", "Ⲡ", "Ⲣ", "Ⲥ", "Ⲧ", "Ⲩ", "Ⲫ", "Ⲭ", "Ⲯ",
      "Ⲱ", "Ⲳ", "Ⲵ", "Ⲷ", "Ⲹ", "Ⲻ", "Ⲽ", "Ⲿ", "Ⳁ", "Ⳃ", "Ⳅ", "Ⳇ", "Ⳉ", "Ⳋ", "Ⳍ", "Ⳏ", "Ⳑ", "Ⳓ", "Ⳕ", "Ⳗ",
      "Ⳙ", "Ⳛ", "Ⳝ", "Ⳟ", "Ⳡ", "Ⳣ", "Ⳬ", "Ⳮ", "Ⳳ", "Ꚁ", "Ꚃ", "Ꚅ", "Ꚇ", "Ꚉ", "Ꚋ", "Ꚍ", "Ꚏ", "Ꚑ", "Ꚓ", "Ꚕ",
      "Ꚗ", "Ꚙ", "Ꚛ", "Ꞁ", "Ꞃ", "Ꞅ", "Ꞇ", "Ꞌ", "Ɥ", "Ꞑ", "Ꞓ", "Ꞗ", "Ꞙ", "Ꞛ", "Ꞝ", "Ꞟ", "Ꞡ", "Ꞣ", "Ꞥ", "Ꞧ",
      "Ꞩ", "Ɦ", "Ɜ", "Ɡ", "Ɬ", "Ɪ", "Ʞ", "Ʇ", "Ʝ", "Ꭓ", "Ꞵ", "Ꞷ", "Ꞹ", "Ꞻ", "Ꞽ", "Ꞿ", "Ꟁ", "Ꟃ", "Ꞔ", "Ʂ",
      "Ᶎ", "Ꟈ", "Ꟊ", "Ꟑ", "Ꟗ", "Ꟙ", "Ꟶ" }

\* str.isupper() of one character
IsUpper(c) == c \in UpperChars

\* stripped.lower() == 'references'.  str.lower() gives each of the letters
\* c, e, f, n, r, s for that letter and for its ASCII capital only (no other
\* character of Unicode lower-cases to one of them, and none lower-cases to the
\* empty string), so the comparison holds exactly for the ten-letter ASCII
\* word in any mix of letter cases.
LowerIsReferences(s) ==
    /\ Len(s) = Len("references")
    /\ \A k \in 1..Len(s) : CharAt(s, k) \in {CharAt("references", k), CharAt("REFERENCES", k)}

RECURSIVE LStrip(_)
LStrip(s) == IF s = "" THEN ""
             ELSE IF IsSpace(Head(s)) THEN LStrip(Tail(s)) ELSE s

RECURSIVE RStrip(_)
RStrip(s) == IF s = "" THEN ""
             ELSE IF IsSpace(CharAt(s, Len(s))) THEN RStrip(SubSeq(s, 1, Len(s) - 1))
             ELSE s

\* str.strip()
Strip(s) == RStrip(LStrip(s))

\* str.startswith(p)
StartsWith(s, p) == Len(s) >= Len(p) /\ SubSeq(s, 1, Len(p)) = p

\* str.endswith(p)
EndsWith(s, p) == Len(s) >= Len(p) /\ SubSeq(s, Len(s) - Len(p) + 1, Len(s)) = p

\* p in s
Contains(s, p) == \E k \in 1..(Len(s) - Len(p) + 1) : SubSeq(s, k, k + Len(p) - 1) = p

RECURSIVE Split(_, _)
\* str.split(sep) for a one-character sep
Split(s, sep) ==
    IF ~Contains(s, sep) THEN <<s>>
    ELSE LET k == CHOOSE k \in 1..Len(s) :
                     /\ CharAt(s, k) = sep
                     /\ \A j \in 1..(k - 1) : CharAt(s, j) # sep
         IN <<SubSeq(s, 1, k - 1)>> \o Split(SubSeq(s, k + 1, Len(s)), sep)

RECURSIVE Join(_, _)
\* sep.join(parts)
Join(sep, parts) ==
    IF parts = <<>> THEN ""
    ELSE IF Len(parts) = 1 THEN parts[1]
    ELSE parts[1] \o sep \o Join(sep, Tail(parts))

\* the closing positions a lazy (.+?) can stop at when the opening delimiter d
\* starts at p: at least one character between, none of them a newline
Closers(d, s, p) ==
    { q \in (p + Len(d) + 1)..(Len(s) - Len(d) + 1) :
        /\ SubSeq(s, q, q + Len(d) - 1) = d
        /\ \A j \in (p + Len(d))..(q - 1) : CharAt(s, j) # "\n" }

\* the start positions at which d(.+?)d matches
Openers(d, s) ==
    { p \in 1..(Len(s) - Len(d) + 1) :
        SubSeq(s, p, p + Len(d) - 1) = d /\ Closers(d, s, p) # {} }

Min(S) == CHOOSE x \in S : \A y \in S : x <= y

\* re.search(d + '(.+?)' + d, s): <<group(1)>> of the leftmost match, the lazy
\* group stopping at the nearest closing delimiter; <<>> for None
ReSearch(d, s) ==
    IF Openers(d, s) = {} THEN <<>>
    ELSE LET p == Min(Openers(d, s))
             q == Min(Closers(d, s, p))
         IN <<SubSeq(s, p + Len(d), q - 1)>>

---------------------------------------------------------------------------
(* TextParser.parse *)

Paragraph(text) == [type |-> "paragraph", text |-> text]

Heading(level, text) == [type |-> "heading", level |-> level, text |-> text]

Math(formula) == [type |-> "math", formula |-> formula]

\* mutant of FlushParagraph: the flushed paragraph is put in front of the blocks
FlushParagraphInFront(body, para) ==
    IF para # <<>> THEN <<Paragraph(Join(" ", para))>> \o body ELSE body

\* "if current_paragraph: body_content.append({... ' '.join(current_paragraph)})"
FlushParagraph(body, para) ==
    IF para # <<>> THEN Append(body, Paragraph(Join(" ", para))) ELSE body

FlushSrc(src, psrc) == IF psrc # <<>> THEN Append(src, psrc) ELSE src

\* mutant of MarkerBranch: a last-line "---" enters the marker branch too
MarkerBranchAnyRule(ls, k) ==
    LET stripped == Strip(ls[k])
    IN LowerIsReferences(stripped) \/ stripped = "---"

\* the first test of the loop body: the line enters the references-marker branch
MarkerBranch(ls, k) ==
    LET stripped == Strip(ls[k])
    IN \/ LowerIsReferences(stripped)
       \/ (stripped = "---" /\ k < Len(ls))

\* mutant of NextLooksLikeReference: any later non-empty line may start upper-case
AnyLaterLooksLikeReference(ls, k) ==
    \E j \in (k + 1)..Len(ls) : Strip(ls[j]) # "" /\ IsUpper(CharAt(Strip(ls[j]), 1))

\* the for/break over lines[i+1:]: the first non-empty later line starts upper-case
NextLooksLikeReference(ls, k) ==
    LET later == { j \in (k + 1)..Len(ls) : Strip(ls[j]) # "" }
    IN later # {} /\ IsUpper(CharAt(Strip(ls[Min(later)]), 1))

\* mutant of MarkerSetsInReferences: a "---" whose next non-empty line does not
\* look like a reference resets in_references
MarkerResetsInReferences(ls, k, inrefs) ==
    IF Strip(ls[k]) = "---" THEN NextLooksLikeReference(ls, k) ELSE TRUE

\* in_references after the marker branch ran on line k
MarkerSetsInReferences(ls, k, inrefs) ==
    IF Strip(ls[k]) = "---" THEN inrefs \/ NextLooksLikeReference(ls, k) ELSE TRUE

RECURSIVE CountHashes(_)
\* the "for char in stripped" loop counting leading '#'
CountHashes(s) == IF s # "" /\ Head(s) = "#" THEN 1 + CountHashes(Tail(s)) ELSE 0

MaxHeadingLevel == 5

\* mutant of HeadingOf: the text is cut after the clamped level
HeadingOfCutAtClamp(stripped) ==
    LET level == CountHashes(stripped)
        clamped == IF level < MaxHeadingLevel THEN level ELSE MaxHeadingLevel
    IN Heading(clamped, Strip(SubSeq(stripped, clamped + 1, Len(stripped))))

\* the heading branch: "level" counts the whole '#' run, the text is
\* stripped[level:].strip(), the emitted level is min(level, 5)
HeadingOf(stripped) ==
    LET level == CountHashes(stripped)
    IN Heading(IF level < MaxHeadingLevel THEN level ELSE MaxHeadingLevel,
               Strip(SubSeq(stripped, level + 1, Len(stripped))))

\* the test of the formula branch
HasBacktick(stripped) == Contains(stripped, Backtick2) \/ Contains(stripped, Backtick)

\* mutant of FormulaMatch: the single-backtick search is tried first
FormulaMatchSingleFirst(stripped) ==
    IF ReSearch(Backtick, stripped) # <<>> THEN ReSearch(Backtick, stripped)
    ELSE ReSearch(Backtick2, stripped)

\* mutant of FormulaMatch: an unterminated backquote opens a formula that runs
\* to the end of the line
FormulaMatchUnterminated(stripped) ==
    IF ReSearch(Backtick2, stripped) # <<>> THEN ReSearch(Backtick2, stripped)
    ELSE IF ReSearch(Backtick, stripped) # <<>> THEN ReSearch(Backtick, stripped)
    ELSE LET p == Min({ k \in 1..Len(stripped) : CharAt(stripped, k) = Backtick })
         IN <<SubSeq(stripped, p + 1, Len(stripped))>>

\* formula_match: the double-backtick search, then the single-backtick one
FormulaMatch(stripped) ==
    IF ReSearch(Backtick2, stripped) # <<>> THEN ReSearch(Backtick2, stripped)
    ELSE ReSearch(Backtick, stripped)

\* the test of the paragraph-text branch
IsParagraphText(stripped) == stripped # "" /\ ~StartsWith(stripped, "---")

\* one iteration of "for i, line in enumerate(lines)"
ParseLine ==
    /\ pc = "parse"
    /\ parse_i < Len(lines)
    /\ LET k == parse_i + 1
           stripped == Strip(lines[k])
           flushed == FlushParagraph(body_content, current_paragraph)
           flushedSrc == FlushSrc(body_src, para_src)
       IN IF MarkerBranch(lines, k)
          THEN /\ in_references' = MarkerSetsInReferences(lines, k, in_references)
               /\ body_content' = flushed
               /\ body_src' = flushedSrc
               /\ current_paragraph' = <<>>
               /\ para_src' = <<>>
               /\ UNCHANGED <<references, ref_src>>
          ELSE IF in_references
          THEN /\ references' = IF stripped # "" THEN Append(references, stripped)
                                ELSE references
               /\ ref_src' = IF stripped # "" THEN Append(ref_src, k) ELSE ref_src
               /\ UNCHANGED <<in_references, body_content, body_src,
                              current_paragraph, para_src>>
          ELSE IF StartsWith(stripped, "#")
          THEN /\ body_content' = Append(flushed, HeadingOf(stripped))
               /\ body_src' = Append(flushedSrc, <<k>>)
               /\ current_paragraph' = <<>>
               /\ para_src' = <<>>
               /\ UNCHANGED <<in_references, references, ref_src>>
          ELSE IF HasBacktick(stripped)
          THEN /\ body_content' = IF FormulaMatch(stripped) # <<>>
                                  THEN Append(flushed, Math(FormulaMatch(stripped)[1]))
                                  ELSE flushed
               /\ body_src' = IF FormulaMatch(stripped) # <<>>
                              THEN Append(flushedSrc, <<k>>)
                              ELSE flushedSrc
               /\ current_paragraph' = <<>>
               /\ para_src' = <<>>
               /\ UNCHANGED <<in_references, references, ref_src>>
          ELSE IF IsParagraphText(stripped)
          THEN /\ current_paragraph' = Append(current_paragraph, stripped)
               /\ para_src' = Append(para_src, k)
               /\ UNCHANGED <<in_references, body_content, body_src, references, ref_src>>
          ELSE /\ body_content' = flushed
               /\ body_src' = flushedSrc
               /\ current_paragraph' = <<>>
               /\ para_src' = <<>>
               /\ UNCHANGED <<in_references, references, ref_src>>
    /\ parse_i' = parse_i + 1
    /\ UNCHANGED <<saved, entry, title_data, raw_text, lines, doc_settings, doc, body_i, pc, error, raised_in>>

\* after the loop: the final flush and the return into create_apa_document
ParseFinish ==
    /\ pc = "parse"
    /\ parse_i = Len(lines)
    /\ body_content' = FlushParagraph(body_content, current_paragraph)
    /\ body_src' = FlushSrc(body_src, para_src)
    /\ current_paragraph' = <<>>
    /\ para_src' = <<>>
    /\ pc' = "create_document"
    /\ UNCHANGED <<saved, entry, title_data, raw_text, lines, parse_i, in_references,
                   references, ref_src, doc_settings, doc, body_i, error, raised_in>>

---------------------------------------------------------------------------
(* APAFormatter: the document is the sequence of paragraphs added to self.doc *)

Run(text) == [text |-> text, bold |-> FALSE, italic |-> FALSE]

Bold(run) == [run EXCEPT !.bold = TRUE]

Italic(run) == [run EXCEPT !.italic = TRUE]

\* docx: Document.add_paragraph(text) gives the paragraph a run only for a
\* non-empty text
AddParagraph(text) ==
    [runs |-> IF text # "" THEN <<Run(text)>> ELSE <<>>,
     alignment |-> "unset", left_indent |-> "unset",
     first_line_indent |-> "unset", page_break |-> FALSE]

\* docx: Paragraph.add_run(text) always appends a run
AddRun(para, run) == [para EXCEPT !.runs = Append(@, run)]

\* docx: Document.add_page_break()
PageBreak == [AddParagraph("") EXCEPT !.page_break = TRUE]

\* create_document up to the title page: Document(), _set_document_defaults,
\* _set_margins, _add_page_numbers
CreateDocumentSetup ==
    /\ pc = "create_document"
    /\ doc' = <<>>
    /\ doc_settings' = {"defaults", "margins", "page_numbers"}
    /\ pc' = "title_page"
    /\ UNCHANGED <<saved, entry, title_data, raw_text, parseVars, body_i, error, raised_in>>

TitleKeys == <<"author", "institution", "course", "instructor", "date">>

Centered(para) == [para EXCEPT !.alignment = "center"]

RECURSIVE TitleFieldsKeepEmpty(_, _)
\* mutant of TitleFields: a key present with an empty value gives a paragraph too
TitleFieldsKeepEmpty(td, keys) ==
    IF keys = <<>> THEN <<>>
    ELSE (IF Head(keys) \in DOMAIN td
          THEN <<Centered(AddParagraph(td[Head(keys)]))>>
          ELSE <<>>) \o TitleFieldsKeepEmpty(td, Tail(keys))

RECURSIVE TitleFields(_, _)
\* "for key in [...]: if key in title_data and title_data[key]: ..."
TitleFields(td, keys) ==
    IF keys = <<>> THEN <<>>
    ELSE (IF Head(keys) \in DOMAIN td /\ td[Head(keys)] # ""
          THEN <<Centered(AddParagraph(td[Head(keys)]))>>
          ELSE <<>>) \o TitleFields(td, Tail(keys))

\* what _create_title_page has added when title_data['title'] is looked up
TitlePageHead ==
    <<AddParagraph(""), AddParagraph(""), AddParagraph(""), Centered(AddParagraph(""))>>

TitlePage(td) ==
    <<AddParagraph(""), AddParagraph(""), AddParagraph(""),
      AddRun(Centered(AddParagraph("")), Bold(Run(td["title"]))),
      AddParagraph("")>> \o TitleFields(td, TitleKeys)

\* _create_title_page: title_data['title'] raises KeyError when the key is absent
CreateTitlePage ==
    /\ pc = "title_page"
    /\ IF "title" \in DOMAIN title_data
       THEN /\ doc' = doc \o TitlePage(title_data)
            /\ pc' = "page_break_body"
            /\ UNCHANGED <<error, raised_in>>
       ELSE /\ doc' = doc \o TitlePageHead
            /\ pc' = "raised"
            /\ error' = "KeyError"
            /\ raised_in' = "_create_title_page"
    /\ UNCHANGED <<saved, entry, title_data, raw_text, parseVars, doc_settings, body_i>>

\* self.doc.add_page_break() before the body, and "i = 0" of _create_body
PageBreakBeforeBody ==
    /\ pc = "page_break_body"
    /\ doc' = Append(doc, PageBreak)
    /\ body_i' = 0
    /\ pc' = "body"
    /\ UNCHANGED <<saved, entry, title_data, raw_text, parseVars, doc_settings, error, raised_in>>

\* mutant of IsRunIn: only a level-4 heading is merged with its paragraph
IsRunInLevel4Only(body, i) ==
    /\ body[i + 1].type = "heading"
    /\ body[i + 1].level = 4
    /\ i + 1 < Len(body)
    /\ body[i + 2].type = "paragraph"

\* mutant of IsRunIn: only a level-5 heading is merged with its paragraph
IsRunInLevel5Only(body, i) ==
    /\ body[i + 1].type = "heading"
    /\ body[i + 1].level = 5
    /\ i + 1 < Len(body)
    /\ body[i + 2].type = "paragraph"

\* the test of the run-in branch, for the block at 0-based index i
IsRunIn(body, i) ==
    /\ body[i + 1].type = "heading"
    /\ body[i + 1].level \in {4, 5}
    /\ i + 1 < Len(body)
    /\ body[i + 2].type = "paragraph"

\* the run-in paragraph of a level 4/5 heading and the paragraph after it
RunInParagraph(h, p) ==
    LET heading_run == IF h.level = 5 THEN Italic(Bold(Run(h.text \o ". ")))
                       ELSE Bold(Run(h.text \o ". "))
    IN AddRun(AddRun([AddParagraph("") EXCEPT !.left_indent = "0.5in",
                                               !.first_line_indent = "0in"],
                     heading_run),
              Run(p.text))

\* the paragraph of a regular or standalone heading, before its runs[0] is styled
HeadingParagraph(h) ==
    LET para == AddParagraph(h.text)
    IN IF h.level = 1 THEN [para EXCEPT !.alignment = "center"]
       ELSE IF h.level \in {2, 3} THEN [para EXCEPT !.alignment = "left"]
       ELSE IF h.level \in {4, 5} THEN [para EXCEPT !.left_indent = "0.5in"]
       ELSE para

\* the styling of runs[0] and the trailing period of a standalone level 4/5 heading
StyledHeading(h) ==
    LET para == HeadingParagraph(h)
        first == IF h.level \in {3, 5} THEN Italic(Bold(para.runs[1]))
                 ELSE Bold(para.runs[1])
        styled == [para EXCEPT !.runs[1] = first]
    IN IF h.level \in {4, 5} /\ ~EndsWith(h.text, ".")
       THEN AddRun(styled, Run("."))
       ELSE styled

\* para.runs[0] raises IndexError when the heading text is empty
HeadingRaises(h) == h.level \in 1..5 /\ AddParagraph(h.text).runs = <<>>

BodyParagraph(b) == [AddParagraph(b.text) EXCEPT !.first_line_indent = "0.5in"]

MathParagraph(b) == AddRun(Centered(AddParagraph("")), Italic(Run(b.formula)))

\* one iteration of "while i < len(body_content)"
CreateBodyStep ==
    /\ pc = "body"
    /\ body_i < Len(body_content)
    /\ LET block == body_content[body_i + 1]
       IN IF block.type = "heading"
          THEN IF IsRunIn(body_content, body_i)
               THEN /\ doc' = Append(doc, RunInParagraph(block, body_content[body_i + 2]))
                    /\ body_i' = body_i + 2
                    /\ UNCHANGED <<pc, error, raised_in>>
               ELSE IF HeadingRaises(block)
               THEN /\ doc' = Append(doc, HeadingParagraph(block))
                    /\ pc' = "raised"
                    /\ error' = "IndexError"
                    /\ raised_in' = "_create_body"
                    /\ UNCHANGED body_i
               ELSE /\ doc' = Append(doc, IF block.level \in 1..5 THEN StyledHeading(block)
                                         ELSE HeadingParagraph(block))
                    /\ body_i' = body_i + 1
                    /\ UNCHANGED <<pc, error, raised_in>>
          ELSE IF block.type = "paragraph"
          THEN /\ doc' = Append(doc, BodyParagraph(block))
               /\ body_i' = body_i + 1
               /\ UNCHANGED <<pc, error, raised_in>>
          ELSE /\ doc' = IF block.type = "math" THEN Append(doc, MathParagraph(block))
                         ELSE doc
               /\ body_i' = body_i + 1
               /\ UNCHANGED <<pc, error, raised_in>>
    /\ UNCHANGED <<saved, entry, title_data, raw_text, parseVars, doc_settings>>

\* the loop of _create_body ends; self.doc.add_page_break() before the references
PageBreakBeforeReferences ==
    /\ pc = "body"
    /\ body_i >= Len(body_content)
    /\ doc' = Append(doc, PageBreak)
    /\ pc' = "references"
    /\ UNCHANGED <<saved, entry, title_data, raw_text, parseVars, doc_settings, body_i, error, raised_in>>

ReferencesHeading ==
    LET para == Centered(AddParagraph("References"))
    IN [para EXCEPT !.runs[1] = Bold(@)]

ReferenceParagraph(ref) ==
    [AddParagraph(Strip(ref)) EXCEPT !.left_indent = "0.5in",
                                     !.first_line_indent = "-0.5in"]

RECURSIVE ReferenceEntriesKeepBlank(_)
\* mutant of ReferenceEntries: a blank entry gives a paragraph too
ReferenceEntriesKeepBlank(refs) ==
    IF refs = <<>> THEN <<>>
    ELSE <<ReferenceParagraph(Head(refs))>> \o ReferenceEntriesKeepBlank(Tail(refs))

RECURSIVE ReferenceEntries(_)
\* "for ref in references: if ref.strip(): ..."
ReferenceEntries(refs) ==
    IF refs = <<>> THEN <<>>
    ELSE (IF Strip(Head(refs)) # "" THEN <<ReferenceParagraph(Head(refs))>> ELSE <<>>)
         \o ReferenceEntries(Tail(refs))

\* _create_references, and the return of create_document
CreateReferences ==
    /\ pc = "references"
    /\ doc' = IF references = <<>> THEN doc
              ELSE Append(doc, ReferencesHeading) \o ReferenceEntries(references)
    /\ pc' = IF entry = "create_apa_document" THEN "save" ELSE "done"
    /\ UNCHANGED <<saved, entry, title_data, raw_text, parseVars, doc_settings, body_i, error, raised_in>>

\* the exception classes a call into the caller's objects can raise. Python's
\* classes are an open set: the names are the ones the standard paths and
\* streams produce (OSError under its alias IOError, UnicodeEncodeError,
\* ValueError) and some a caller's own object can raise; "Exception" stands
\* for every class not named
AnyException == {"IOError", "UnicodeEncodeError", "ValueError", "TypeError", "AttributeError",
                 "RuntimeError", "KeyError", "IndexError", "Exception"}

\* what doc.save(output_path) can do: return with the file written, or pass on
\* whatever opening and writing output_path raises
SaveOutcomes == {"none"} \cup AnyException

\* what the print of the closing message can do: return, or pass on whatever
\* sys.stdout.write raises (UnicodeEncodeError when the stream's encoding has no
\* U+2713, an OSError when the write fails, ValueError when the stream is
\* closed, anything from a replaced sys.stdout)
PrintOutcomes == {"none"} \cup AnyException

\* doc.save(output_path), then the print of the closing message: print runs
\* only after doc.save returned, so when it raises the file is already written
Save ==
    /\ pc = "save"
    /\ \E save_error \in SaveOutcomes, print_error \in PrintOutcomes :
         /\ saved' = (save_error = "none")
         /\ error' = IF save_error # "none" THEN save_error ELSE print_error
         /\ raised_in' = IF save_error # "none" THEN "doc.save"
                         ELSE IF print_error # "none" THEN "print"
                         ELSE "none"
         /\ pc' = IF error' = "none" THEN "done" ELSE "raised"
    /\ UNCHANGED <<entry, title_data, raw_text, parseVars, doc_settings, doc, body_i>>

---------------------------------------------------------------------------
(* Inputs *)

RECURSIVE SeqsUpTo(_, _)
\* the sequences over S of length at most n
SeqsUpTo(S, n) ==
    IF n = 0 THEN {<<>>}
    ELSE LET shorter == SeqsUpTo(S, n - 1)
         IN shorter \cup { Append(q, x) : q \in shorter, x \in S }

\* input lines: blank, blank but for U+000B and U+00A0, plain text (lower-
\* and upper-case first, and an upper-case E with acute between U+001C and
\* U+0085), headings of levels 1, 4 and 6 hashes, an empty heading, a heading
\* holding a backquote, rules, the marker word, and lines with backquotes
\* (unmatched, double with an inner single, single, four in a row)
LinePool ==
    { "", " ", "  ab ", "Xy", "Éy",
      "# T", "#### D.", "######F", "#", "# " \o Backtick,
      "---", "---x", "References",
      "a" \o Backtick \o "b",
      Backtick2 \o "f" \o Backtick \o "g" \o Backtick2,
      "c " \o Backtick \o "g" \o Backtick,
      Backtick2 \o Backtick2 }

TitledData == [title |-> "T", author |-> "Ann", date |-> ""]

\* a title with three of the optional keys filled, one empty and one absent
PartlyFilledData ==
    [title |-> "T", author |-> "Ann", institution |-> "", course |-> "C", date |-> "d"]

TitlePool == { TitledData, [author |-> "Ann"], PartlyFilledData }

BlockPool ==
    { Heading(1, "A"), Heading(1, ""), Heading(2, "B"), Heading(3, "C"),
      Heading(4, "D"), Heading(4, "D."), Heading(5, "E"), Heading(5, ""),
      Paragraph("p"), Math("f") }

RefPool == { "R", " ", " S " }

\* the sample raw_text of the module's example
SampleLines ==
    << "",
       "# Introduction",
       "Artificial intelligence is transforming the landscape of modern education, offering new possibilities for personalized learning and data-driven instruction.",
       "",
       "## Background",
       "The integration of technology in educational settings has evolved significantly over the past several decades. From the introduction of computers in classrooms to the current era of artificial intelligence and machine learning, each technological advancement has brought new opportunities and challenges.",
       "",
       "### Early Developments",
       "The 1980s marked the beginning of widespread computer adoption in schools. Initial applications focused on basic computer literacy and simple educational software.",
       "",
       "#### Research on Early Computing",
       "Smith (2015) conducted a comprehensive study on the effectiveness of early educational technology. The research demonstrated mixed results, with significant variations based on implementation quality and teacher training.",
       "",
       "##### Specific Findings from Pilot Programs",
       "Data from pilot programs in California schools showed a 15% improvement in mathematics scores. These early successes laid the groundwork for future technological integration.",
       "",
       "The formula for calculating educational impact is: " \o Backtick2 \o "Impact = (Post_Score - Pre_Score) / Pre_Score × 100" \o Backtick2,
       "",
       "## Current Trends",
       "Today's educational technology landscape is characterized by adaptive learning systems, learning analytics, and AI-powered tutoring systems.",
       "",
       "---",
       "References",
       "American Psychological Association. (2020). Publication manual of the American Psychological Association (7th ed.). https://doi.org/10.1037/0000165-000",
       "Johnson, S. (2023). AI in modern education. Healthcare Technology Review, 12(3), 45-67.",
       "Smith, A., & Brown, B. (2015). Early educational computing: A retrospective analysis. Journal of Educational Technology, 28(2), 112-134.",
       "Williams, T. (2022). Machine learning for personalized instruction. Academic Press.",
       "" >>

SampleText == Join("\n", SampleLines)

\* the sample title_data of the module's example
SampleTitle ==
    [title |-> "The Impact of Technology in Modern Education",
     author |-> "Jane Doe",
     institution |-> "University of Technology",
     course |-> "EDU-601: Advanced Learning Theories",
     instructor |-> "Dr. Alan Turing",
     date |-> "October 16, 2025"]

\* the sample title_data, and the same with one optional key left out
SampleTitlePool ==
    {SampleTitle} \cup
    { [k \in (DOMAIN SampleTitle) \ {drop} |-> SampleTitle[k]] :
        drop \in (DOMAIN SampleTitle) \ {"title"} }

InitCommon ==
    /\ parse_i = 0
    /\ in_references = FALSE
    /\ current_paragraph = <<>>
    /\ para_src = <<>>
    /\ body_src = <<>>
    /\ ref_src = <<>>
    /\ doc_settings = {}
    /\ doc = <<>>
    /\ body_i = 0
    /\ saved = FALSE
    /\ error = "none"
    /\ raised_in = "none"

\* the texts of at most n lines over LinePool
Texts(n) == { Join("\n", ls) : ls \in SeqsUpTo(LinePool, n) }

\* every text with a titled title_data; the short texts with every title_data
Inputs ==
    { [raw_text |-> t, title_data |-> TitledData] : t \in Texts(MaxLines) }
    \cup { [raw_text |-> t, title_data |-> td] : t \in Texts(1), td \in TitlePool }

\* create_apa_document(title_data, raw_text, output_path) is called
Init ==
    /\ entry = "create_apa_document"
    /\ \E inp \in Inputs : raw_text = inp.raw_text /\ title_data = inp.title_data
    /\ lines = Split(raw_text, "\n")
    /\ body_content = <<>>
    /\ references = <<>>
    /\ pc = "parse"
    /\ InitCommon

\* every block sequence with one reference; one block with every references
\* list and title_data
DirectInputs ==
    { [body_content |-> b, references |-> <<"R">>, title_data |-> TitledData] :
        b \in SeqsUpTo(BlockPool, MaxBlocks) }
    \cup { [body_content |-> <<Paragraph("p")>>, references |-> r, title_data |-> td] :
             r \in SeqsUpTo(RefPool, MaxRefs), td \in TitlePool }

\* APAFormatter().create_document(title_data, body_content, references) is called
InitDirect ==
    /\ entry = "create_document"
    /\ raw_text = ""
    /\ lines = <<>>
    /\ \E inp \in DirectInputs :
         /\ body_content = inp.body_content
         /\ references = inp.references
         /\ title_data = inp.title_data
    /\ pc = "create_document"
    /\ InitCommon

\* create_apa_document is called on the module's sample text
InitSample ==
    /\ entry = "create_apa_document"
    /\ raw_text = SampleText
    /\ title_data \in SampleTitlePool
    /\ lines = Split(raw_text, "\n")
    /\ body_content = <<>>
    /\ references = <<>>
    /\ pc = "parse"
    /\ InitCommon

Next ==
    \/ ParseLine
    \/ ParseFinish
    \/ CreateDocumentSetup
    \/ CreateTitlePage
    \/ PageBreakBeforeBody
    \/ CreateBodyStep
    \/ PageBreakBeforeReferences
    \/ CreateReferences
    \/ Save

\* TextParser.parse alone
NextParse ==
    \/ ParseLine
    \/ ParseFinish

NextDirect ==
    \/ CreateDocumentSetup
    \/ CreateTitlePage
    \/ PageBreakBeforeBody
    \/ CreateBodyStep
    \/ PageBreakBeforeReferences
    \/ CreateReferences

Spec == Init /\ [][Next]_vars

SpecParse == Init /\ [][NextParse]_vars

SpecDirect == InitDirect /\ [][NextDirect]_vars

SpecSample == InitSample /\ [][Next]_vars

---------------------------------------------------------------------------
(* Claims *)

\* the trimmed text of input line k
StrippedLine(k) == Strip(lines[k])

\* block was made from the input lines numbered in src
BlockMadeFrom(block, src) ==
    IF block.type = "paragraph"
    THEN block.text = Join(" ", [m \in 1..Len(src) |-> StrippedLine(src[m])])
    ELSE IF block.type = "heading"
    THEN /\ Len(src) = 1
         /\ StartsWith(StrippedLine(src[1]), "#")
         /\ EndsWith(StrippedLine(src[1]), block.text)
    ELSE /\ Len(src) = 1
         /\ Contains(StrippedLine(src[1]), block.formula)

\* C1: parse emits the body blocks in source order (every line that went into
\* an earlier block precedes every line that went into a later block, and each
\* block is made from exactly its lines), and the references list holds the
\* collected reference lines, trimmed, in their input order.
C1_SourceOrder ==
    /\ Len(body_src) = Len(body_content)
    /\ \A a \in 1..Len(body_content) :
         /\ body_src[a] # <<>>
         /\ \A m \in 1..Len(body_src[a]) : body_src[a][m] \in 1..parse_i
         /\ \A m, n \in 1..Len(body_src[a]) : m < n => body_src[a][m] < body_src[a][n]
         /\ BlockMadeFrom(body_content[a], body_src[a])
    /\ \A a, b \in 1..Len(body_content) :
         a < b => \A m \in 1..Len(body_src[a]), n \in 1..Len(body_src[b]) :
                    body_src[a][m] < body_src[b][n]
    /\ Len(ref_src) = Len(references)
    /\ \A a \in 1..Len(references) :
         ref_src[a] \in 1..parse_i /\ references[a] = StrippedLine(ref_src[a])
    /\ \A a, b \in 1..Len(references) : a < b => ref_src[a] < ref_src[b]

\* parse has returned a heading followed by a paragraph of two lines, or a
\* paragraph followed by two references
C1_Witness ==
    /\ pc = "create_document"
    /\ \/ /\ Len(body_content) = 2
          /\ body_content[1].type = "heading"
          /\ Len(body_src[2]) = 2
       \/ /\ Len(body_content) = 1
          /\ Len(references) = 2

\* the block under the cursor is a level 4/5 heading and the next block is a paragraph
HeadingThenParagraph ==
    /\ pc = "body"
    /\ body_i + 2 <= Len(body_content)
    /\ body_content[body_i + 1].type = "heading"
    /\ body_content[body_i + 1].level \in {4, 5}
    /\ body_content[body_i + 2].type = "paragraph"

\* the one paragraph a run-in merge of heading h and paragraph p must produce
IsMergeOf(para, h, p) ==
    /\ Len(para.runs) = 2
    /\ para.runs[1] = [text |-> h.text \o ". ", bold |-> TRUE, italic |-> (h.level = 5)]
    /\ para.runs[2] = [text |-> p.text, bold |-> FALSE, italic |-> FALSE]
    /\ para.left_indent = "0.5in"
    /\ para.first_line_indent = "0in"

\* C2: in _create_body a level 4/5 heading immediately followed by a paragraph
\* block yields exactly one output paragraph (heading text + ". " emphasised,
\* then the paragraph text), the cursor advances by two, and so the consumed
\* paragraph is never visited for a directive of its own.
C2_RunInMerge ==
    [][HeadingThenParagraph =>
         /\ pc' = "body"
         /\ body_i' = body_i + 2
         /\ Len(doc') = Len(doc) + 1
         /\ SubSeq(doc', 1, Len(doc)) = doc
         /\ IsMergeOf(doc'[Len(doc')], body_content[body_i + 1], body_content[body_i + 2])]_vars

\* a level-5 heading and its paragraph have just been merged
C2_Witness ==
    /\ pc = "body"
    /\ body_i >= 2
    /\ body_content[body_i - 1].type = "heading"
    /\ body_content[body_i - 1].level = 5
    /\ body_content[body_i].type = "paragraph"
    /\ IsMergeOf(doc[Len(doc)], body_content[body_i - 1], body_content[body_i])

\* the next line is processed while in_references is already true
InReferencesMode == pc = "parse" /\ parse_i < Len(lines) /\ in_references

\* C3 (as claimed): once in_references is true, every later non-empty line is
\* appended trimmed to the references list and every later empty line is
\* ignored; no line seen in this mode is handled by any other rule.
C3_Original ==
    [][InReferencesMode =>
         /\ references' = IF StrippedLine(parse_i + 1) # ""
                          THEN Append(references, StrippedLine(parse_i + 1))
                          ELSE references
         /\ body_content' = body_content]_vars

\* the line is one the marker rule takes first: the word "references" in any
\* letter case, or "---" with at least one line after it
TakenByMarkerRule(k) ==
    \/ LowerIsReferences(StrippedLine(k))
    \/ (StrippedLine(k) = "---" /\ k < Len(lines))

\* C3 (amended): once in_references is true, a later line that the marker rule
\* takes first (the word "references", or "---" with a line after it) is
\* skipped and adds nothing; every other non-empty line is appended trimmed to
\* the references list and every empty line is ignored; no line seen in this
\* mode changes body_content or leaves the mode.
C3_ReferencesMode ==
    [][InReferencesMode =>
         /\ references' = IF StrippedLine(parse_i + 1) # "" /\ ~TakenByMarkerRule(parse_i + 1)
                          THEN Append(references, StrippedLine(parse_i + 1))
                          ELSE references
         /\ body_content' = body_content
         /\ current_paragraph' = <<>>
         /\ in_references']_vars

\* in references mode a "---" line was skipped and the line after it collected
C3_Witness ==
    /\ pc = "create_document"
    /\ Len(lines) = 3
    /\ LowerIsReferences(StrippedLine(1))
    /\ StrippedLine(2) = "---"
    /\ StrippedLine(3) # ""
    /\ references = <<StrippedLine(3)>>

\* C4: parsing and mapping never raise: parse, _create_body and
\* _create_references complete for every raw text (the only failures allowed
\* are the missing title, the final save and the closing message).
C4_NeverRaises == raised_in \notin {"parse", "_create_body", "_create_references"}

\* C5: when title_data has no 'title' key the call fails before any rendering
\* begins: at the failure nothing has been set on or added to the document.
C5_FailsBeforeRendering ==
    (pc = "raised" /\ "title" \notin DOMAIN title_data) =>
        (doc_settings = {} /\ doc = <<>>)

\* the spans of s delimited by d with at least one character between the
\* delimiters: <<p, q>> are the positions of the opening and the closing d
Spans(d, s) ==
    { pq \in (1..Len(s)) \X (1..Len(s)) :
        /\ pq[1] + Len(d) < pq[2]
        /\ pq[2] + Len(d) - 1 <= Len(s)
        /\ SubSeq(s, pq[1], pq[1] + Len(d) - 1) = d
        /\ SubSeq(s, pq[2], pq[2] + Len(d) - 1) = d }

\* the text between the first opening delimiter that has a closing one and
\* the nearest such closing delimiter
FirstSpanText(d, s) ==
    LET first == CHOOSE pq \in Spans(d, s) :
                     \A other \in Spans(d, s) :
                        \/ pq[1] < other[1]
                        \/ (pq[1] = other[1] /\ pq[2] <= other[2])
    IN SubSeq(s, first[1] + Len(d), first[2] - 1)

\* the next line is processed in body mode and is neither a marker nor a heading
BodyLineNext ==
    /\ pc = "parse"
    /\ parse_i < Len(lines)
    /\ ~in_references
    /\ ~TakenByMarkerRule(parse_i + 1)
    /\ ~StartsWith(StrippedLine(parse_i + 1), "#")

\* the paragraph buffer emitted as one Paragraph block, if it holds anything
WithBufferFlushed ==
    IF current_paragraph = <<>> THEN body_content
    ELSE Append(body_content, Paragraph(Join(" ", current_paragraph)))

\* C6: for a body-mode, non-heading line holding a double-backtick span (at
\* least one character between the delimiters) parse emits a formula block
\* whose text is exactly the text between the opening double backtick and its
\* closing one; a single-backtick span is used only when the line holds no
\* double-backtick span.
C6_FormulaExtraction ==
    [][BodyLineNext =>
         /\ Spans(Backtick2, StrippedLine(parse_i + 1)) # {} =>
              body_content' = Append(WithBufferFlushed,
                                     Math(FirstSpanText(Backtick2, StrippedLine(parse_i + 1))))
         /\ (Spans(Backtick2, StrippedLine(parse_i + 1)) = {}
             /\ Spans(Backtick, StrippedLine(parse_i + 1)) # {}) =>
              body_content' = Append(WithBufferFlushed,
                                     Math(FirstSpanText(Backtick, StrippedLine(parse_i + 1))))]_vars

\* the line just processed holds a double-backtick span with a backquote inside
\* it, and the formula block made from it is the last block
C6_Witness ==
    /\ pc = "parse"
    /\ parse_i >= 1
    /\ ~in_references
    /\ Spans(Backtick2, StrippedLine(parse_i)) # {}
    /\ Contains(FirstSpanText(Backtick2, StrippedLine(parse_i)), Backtick)
    /\ body_content # <<>>
    /\ body_content[Len(body_content)] = Math(FirstSpanText(Backtick2, StrippedLine(parse_i)))

\* line k holds a backquote but no complete delimited span
UnmatchedBacktick(k) ==
    /\ Contains(StrippedLine(k), Backtick)
    /\ Spans(Backtick2, StrippedLine(k)) = {}
    /\ Spans(Backtick, StrippedLine(k)) = {}

\* C7 (as claimed): processing a body-mode line that holds a backtick but no
\* complete delimited span leaves body_content as it was, whatever the
\* paragraph buffer holds.
C7_Original ==
    [][(BodyLineNext /\ UnmatchedBacktick(parse_i + 1)) =>
         body_content' = body_content]_vars

\* C7 (amended): processing a body-mode, non-heading line that holds a backtick
\* but no complete delimited span emits no formula block; it flushes the
\* paragraph buffer, so body_content is unchanged when the buffer is empty and
\* otherwise grows by exactly the one Paragraph block of the buffered lines.
C7_OnlyFlushes ==
    [][(BodyLineNext /\ UnmatchedBacktick(parse_i + 1)) =>
         /\ body_content' = WithBufferFlushed
         /\ current_paragraph' = <<>>
         /\ references' = references
         /\ ~in_references']_vars

\* an unmatched-backtick line was processed with one line in the buffer: the
\* buffer was flushed as a Paragraph and nothing else was added
C7_Witness ==
    /\ pc = "parse"
    /\ parse_i = 2
    /\ ~in_references
    /\ UnmatchedBacktick(2)
    /\ body_content = <<Paragraph(StrippedLine(1))>>
    /\ body_src = <<(<<1>>)>>
    /\ current_paragraph = <<>>

\* line k sets in_references when it is processed
EntersReferences(k) ==
    MarkerBranch(lines, k) /\ MarkerSetsInReferences(lines, k, FALSE)

\* line k is processed in body mode
BodyModeAt(k) == \A j \in 1..(k - 1) : ~EntersReferences(j)

\* line k is plain text: not blank, not a marker or rule line, not a heading,
\* without a backquote
PlainLine(k) ==
    /\ StrippedLine(k) # ""
    /\ ~TakenByMarkerRule(k)
    /\ ~StartsWith(StrippedLine(k), "---")
    /\ ~StartsWith(StrippedLine(k), "#")
    /\ ~Contains(StrippedLine(k), Backtick)

\* the numbers a..b as a sequence, and the Paragraph block of those lines
LineNumbers(a, b) == [m \in 1..(b - a + 1) |-> a + m - 1]

ParagraphOf(a, b) ==
    Paragraph(Join(" ", [m \in 1..(b - a + 1) |-> StrippedLine(a + m - 1)]))

\* body_content holds the Paragraph made from exactly the lines a..b
EmittedAsOneParagraph(a, b) ==
    \E n \in 1..Len(body_content) :
        body_src[n] = LineNumbers(a, b) /\ body_content[n] = ParagraphOf(a, b)

\* line k is a plain non-empty line as the claim has it: not blank, not a
\* marker (the word "references", the bare "---"), not a heading, without a
\* backquote
PlainAsClaimed(k) ==
    /\ StrippedLine(k) # ""
    /\ ~TakenByMarkerRule(k)
    /\ StrippedLine(k) # "---"
    /\ ~StartsWith(StrippedLine(k), "#")
    /\ ~Contains(StrippedLine(k), Backtick)

\* for every body-mode line k with an unmatched backtick: no block is made
\* from it, the run of Plain lines that ends just before it is emitted as its
\* own Paragraph, and the Plain lines that follow it, up to the next line that
\* is not Plain or the end of input, are accumulated in order and emitted in
\* one Paragraph block
AccumulationSurvives(Plain(_)) ==
    \A k \in 1..parse_i :
        (UnmatchedBacktick(k) /\ ~StartsWith(StrippedLine(k), "#") /\ BodyModeAt(k)) =>
            /\ \A n \in 1..Len(body_src) : \A m \in 1..Len(body_src[n]) : body_src[n][m] # k
            /\ \A m \in 1..Len(para_src) : para_src[m] # k
            /\ \A a \in 1..(k - 1) :
                 ((\A j \in a..(k - 1) : Plain(j)) /\ (a = 1 \/ ~Plain(a - 1))) =>
                     EmittedAsOneParagraph(a, k - 1)
            /\ \A b \in (k + 1)..parse_i :
                 (\A j \in (k + 1)..b : Plain(j)) =>
                     IF b = parse_i /\ pc = "parse"
                     THEN /\ current_paragraph = [m \in 1..(b - k) |-> StrippedLine(k + m)]
                          /\ para_src = LineNumbers(k + 1, b)
                     ELSE (b = Len(lines) \/ ~Plain(b + 1)) =>
                              EmittedAsOneParagraph(k + 1, b)

\* C8: a body-mode line with an unmatched backtick produces no formula block
\* (no block at all is made from it), no plain line accumulated before it is
\* lost, and every plain non-empty line that follows it, up to the next
\* heading, formula, marker or blank line, is accumulated in order and emitted
\* in one Paragraph block.
C8_AccumulationSurvives == AccumulationSurvives(PlainAsClaimed)

\* the same for the lines the paragraph branch of line 319 takes, which leaves
\* out every line that starts with "---"
AccumulationOfKeptLines == AccumulationSurvives(PlainLine)

\* the positions of the page breaks in the document
PageBreaks == { k \in 1..Len(doc) : doc[k].page_break }

\* the paragraphs _create_body added: those between the two page breaks
BodyDirectives ==
    LET first == Min(PageBreaks)
        second == Min(PageBreaks \ {first})
    IN SubSeq(doc, first + 1, second - 1)

\* what a body paragraph is, read off its styling
DirectiveKind(para) ==
    IF para.left_indent = "0.5in" /\ para.first_line_indent = "0in" /\ Len(para.runs) = 2
    THEN (IF para.runs[1].italic THEN "run-in 5" ELSE "run-in 4")
    ELSE IF para.left_indent = "0.5in"
    THEN (IF para.runs[1].italic THEN "standalone 5" ELSE "standalone 4")
    ELSE IF para.first_line_indent = "0.5in" THEN "paragraph"
    ELSE IF para.alignment = "center"
    THEN (IF para.runs[1].bold THEN "heading 1" ELSE "formula")
    ELSE IF para.alignment = "left"
    THEN (IF para.runs[1].italic THEN "heading 3" ELSE "heading 2")
    ELSE "other"

\* how many body paragraphs are of the given kind
CountKind(kind) ==
    Cardinality({ k \in 1..Len(BodyDirectives) : DirectiveKind(BodyDirectives[k]) = kind })

\* the body paragraphs of kind "standalone 4" that end with an appended period
PeriodAppendedLevel4 ==
    { k \in 1..Len(BodyDirectives) :
        /\ DirectiveKind(BodyDirectives[k]) = "standalone 4"
        /\ BodyDirectives[k].runs[Len(BodyDirectives[k].runs)].text = "." }

\* the sample's four reference lines, in source order
SampleReferences == SubSeq(SampleLines, 24, 27)

\* the body and the references have been rendered
Rendered ==
    pc \in {"save", "done"} \/ (pc = "raised" /\ raised_in \in {"doc.save", "print"})

\* C9 (as claimed): for the sample text, parsing and mapping yield exactly 1
\* level-1, 1 level-2 and 1 level-3 heading, 2 paragraphs, 1 standalone
\* period-appended level-4 heading, 1 run-in merge (the level-5 heading), 1
\* formula block and the 4 references in source order.
C9_Original ==
    Rendered =>
        /\ CountKind("heading 1") = 1
        /\ CountKind("heading 2") = 1
        /\ CountKind("heading 3") = 1
        /\ CountKind("paragraph") = 2
        /\ Cardinality(PeriodAppendedLevel4) = 1
        /\ CountKind("standalone 4") = 1
        /\ CountKind("run-in 5") = 1
        /\ CountKind("run-in 4") = 0
        /\ CountKind("formula") = 1
        /\ references = SampleReferences

\* C9 (amended): for the sample text, parsing yields 13 blocks and mapping 11
\* paragraphs, in this order: level-1 heading, paragraph, level-2 heading,
\* paragraph, level-3 heading, paragraph, the run-in merge of the level-4
\* heading with its paragraph, the run-in merge of the level-5 heading with its
\* paragraph, the formula block, the second level-2 heading, paragraph; that
\* is 1 level-1, 2 level-2 and 1 level-3 headings, 4 paragraphs, no standalone
\* level-4 heading, 2 run-in merges and 1 formula block, with the 4 references
\* in source order.
C9_SampleOutput ==
    /\ pc # "parse" =>
         /\ [k \in 1..Len(body_content) |->
               IF body_content[k].type = "heading" THEN body_content[k].level ELSE 0]
            = <<1, 0, 2, 0, 3, 0, 4, 0, 5, 0, 0, 2, 0>>
         /\ [k \in 1..Len(body_content) |-> body_content[k].type = "math"]
            = [k \in 1..13 |-> k = 11]
         /\ body_content[11].formula = "Impact = (Post_Score - Pre_Score) / Pre_Score × 100"
         /\ references = SampleReferences
    /\ Rendered =>
         [k \in 1..Len(BodyDirectives) |-> DirectiveKind(BodyDirectives[k])]
         = <<"heading 1", "paragraph", "heading 2", "paragraph", "heading 3",
             "paragraph", "run-in 4", "run-in 5", "formula", "heading 2", "paragraph">>

\* the sample has been rendered and saved, and the level-4 heading was merged
\* with the paragraph after it
C9_Witness ==
    /\ pc = "done"
    /\ title_data = SampleTitle
    /\ \E k \in 1..Len(doc) :
         /\ Len(doc[k].runs) = 2
         /\ doc[k].runs[1].text = "Research on Early Computing. "
         /\ doc[k].runs[2].text = body_content[8].text

\* the processing of the next line
LineNext == pc = "parse" /\ parse_i < Len(lines)

\* what every marker line must do: flush the buffer as one Paragraph, set
\* in_references, and add the line itself nowhere
ActsAsMarker ==
    /\ in_references'
    /\ body_content' = WithBufferFlushed
    /\ current_paragraph' = <<>>
    /\ references' = references

\* line k is a marker as claimed: "references" in any letter case, or "---"
\* with some later non-empty line starting with an upper-case letter
MarkerAsClaimed(k) ==
    \/ LowerIsReferences(StrippedLine(k))
    \/ /\ StrippedLine(k) = "---"
       /\ \E j \in (k + 1)..Len(lines) :
            StrippedLine(j) # "" /\ IsUpper(CharAt(StrippedLine(j), 1))

\* C10 (as claimed): a line is the references marker exactly when its trimmed
\* lower-cased content is "references", or it is "---" and some remaining
\* non-empty line starts with an upper-case letter; every marker flushes the
\* buffer, sets in_references and is itself added nowhere; no other line sets
\* in_references.
C10_Original ==
    [][LineNext =>
         /\ MarkerAsClaimed(parse_i + 1) => ActsAsMarker
         /\ (~MarkerAsClaimed(parse_i + 1) /\ ~in_references) => ~in_references']_vars

\* line k is a marker: "references" in any letter case, or "---" whose first
\* later non-empty line starts with an upper-case letter
MarkerByNextLine(k) ==
    \/ LowerIsReferences(StrippedLine(k))
    \/ /\ StrippedLine(k) = "---"
       /\ \E j \in (k + 1)..Len(lines) :
            /\ StrippedLine(j) # ""
            /\ \A m \in (k + 1)..(j - 1) : StrippedLine(m) = ""
            /\ IsUpper(CharAt(StrippedLine(j), 1))

\* C10 (amended): a line is the references marker exactly when its trimmed
\* lower-cased content is "references", or it is "---" and the first of the
\* remaining non-empty lines starts with an upper-case letter; every marker
\* flushes the buffer as one Paragraph, sets in_references and is itself added
\* to neither body_content nor references; no other line, a "---" that is not
\* a marker included, changes in_references.
C10_Marker ==
    [][LineNext =>
         /\ MarkerByNextLine(parse_i + 1) => ActsAsMarker
         /\ ~MarkerByNextLine(parse_i + 1) => (in_references' = in_references)]_vars

\* a "---" after one buffered line, with an upper-case line behind it, was
\* just processed: the buffer was flushed and in_references set
C10_Witness ==
    /\ pc = "parse"
    /\ parse_i = 2
    /\ Len(lines) = 3
    /\ PlainLine(1)
    /\ StrippedLine(2) = "---"
    /\ IsUpper(CharAt(StrippedLine(3), 1))
    /\ in_references
    /\ body_content = <<Paragraph(StrippedLine(1))>>
    /\ current_paragraph = <<>>
    /\ references = <<>>

\* the number of '#' characters the string starts with
LeadingHashes(s) ==
    CHOOSE n \in 0..Len(s) :
        /\ \A j \in 1..n : CharAt(s, j) = "#"
        /\ (n = Len(s) \/ CharAt(s, n + 1) # "#")

\* s without its leading and trailing whitespace
TrimmedOf(s) ==
    LET inked == { j \in 1..Len(s) : ~IsSpace(CharAt(s, j)) }
    IN IF inked = {} THEN ""
       ELSE SubSeq(s, Min(inked), CHOOSE j \in inked : \A m \in inked : m <= j)

\* the next line is processed in body mode, is not a marker and is a heading
HeadingLineNext ==
    /\ pc = "parse"
    /\ parse_i < Len(lines)
    /\ ~in_references
    /\ ~TakenByMarkerRule(parse_i + 1)
    /\ StartsWith(StrippedLine(parse_i + 1), "#")

\* the heading block a heading line must give
HeadingBlockOf(s) ==
    LET n == LeadingHashes(s)
    IN [type |-> "heading",
        level |-> IF n <= 5 THEN n ELSE 5,
        text |-> TrimmedOf(SubSeq(s, n + 1, Len(s)))]

\* C11: every heading block parse emits has level = min(number of leading '#'
\* of the trimmed line, 5), hence a level in 1..5, and as text the rest of the
\* trimmed line after the whole '#' run, trimmed; the buffered paragraph, if
\* any, is emitted before the heading.
C11_HeadingBlock ==
    [][HeadingLineNext =>
         /\ body_content' = Append(WithBufferFlushed, HeadingBlockOf(StrippedLine(parse_i + 1)))
         /\ body_content'[Len(body_content')].level \in 1..5
         /\ current_paragraph' = <<>>
         /\ \A k \in 1..Len(body_content') :
              body_content'[k].type = "heading" => body_content'[k].level \in 1..5]_vars

\* a heading line of six '#' was processed with one line in the buffer: the
\* buffer came out first, then the heading at level 5 with the text after the
\* whole run
C11_Witness ==
    /\ pc = "parse"
    /\ parse_i = 2
    /\ PlainLine(1)
    /\ LeadingHashes(StrippedLine(2)) = 6
    /\ body_content = <<Paragraph(StrippedLine(1)),
                        Heading(5, TrimmedOf(SubSeq(StrippedLine(2), 7, Len(StrippedLine(2)))))>>
    /\ body_content[2].text # ""

\* the text a block carries: the formula of a Formula block, the text otherwise
BlockText(block) == IF block.type = "math" THEN block.formula ELSE block.text

\* C12: every block of the body_content parse returns has a non-empty text
\* (Heading, Paragraph and Formula alike), and every entry of the returned
\* references list is a non-empty trimmed string.
C12_NonEmptyText ==
    pc # "parse" =>
        /\ \A k \in 1..Len(body_content) : BlockText(body_content[k]) # ""
        /\ \A k \in 1..Len(references) :
             references[k] # "" /\ references[k] = TrimmedOf(references[k])

\* the entry holds nothing but whitespace
IsBlank(s) == \A j \in 1..Len(s) : IsSpace(CharAt(s, j))

NotBlank(s) == ~IsBlank(s)

\* the directive of the 'References' heading: centered, bold
ReferencesHeadingDirective ==
    [runs |-> <<[text |-> "References", bold |-> TRUE, italic |-> FALSE]>>,
     alignment |-> "center", left_indent |-> "unset",
     first_line_indent |-> "unset", page_break |-> FALSE]

\* the directive of one reference entry: its trimmed text with a hanging indent
EntryDirective(ref) ==
    [runs |-> <<[text |-> TrimmedOf(ref), bold |-> FALSE, italic |-> FALSE]>>,
     alignment |-> "unset", left_indent |-> "0.5in",
     first_line_indent |-> "-0.5in", page_break |-> FALSE]

\* what _create_references must add for the references sequence refs
ReferenceDirectives(refs) ==
    IF refs = <<>> THEN <<>>
    ELSE LET kept == SelectSeq(refs, NotBlank)
         IN <<ReferencesHeadingDirective>> \o [k \in 1..Len(kept) |-> EntryDirective(kept[k])]

\* C13: _create_references emits the 'References' heading first and only if the
\* references sequence is non-empty; an entry that is empty after trimming
\* gives no directive; the entry directives are those of the non-blank entries,
\* as many and in the same order, each with left indent 0.5 and first-line
\* indent -0.5.
C13_ReferenceDirectives ==
    [][pc = "references" => doc' = doc \o ReferenceDirectives(references)]_vars

\* create_document has returned for a references list holding a blank and a
\* non-blank entry: the document ends with the heading and the one entry
C13_Witness ==
    /\ pc = "done"
    /\ Len(references) = 2
    /\ IsBlank(references[1])
    /\ NotBlank(references[2])
    /\ references[2] # TrimmedOf(references[2])
    /\ Len(doc) >= 2
    /\ doc[Len(doc) - 1] = ReferencesHeadingDirective
    /\ doc[Len(doc)] = EntryDirective(references[2])

\* a paragraph without text and without formatting
BlankDirective ==
    [runs |-> <<>>, alignment |-> "unset", left_indent |-> "unset",
     first_line_indent |-> "unset", page_break |-> FALSE]

\* the centered paragraph holding the title in bold
TitleDirective(text) ==
    [BlankDirective EXCEPT !.alignment = "center",
                           !.runs = <<[text |-> text, bold |-> TRUE, italic |-> FALSE]>>]

\* the centered paragraph of one optional key
FieldDirective(text) ==
    [BlankDirective EXCEPT !.alignment = "center",
                           !.runs = <<[text |-> text, bold |-> FALSE, italic |-> FALSE]>>]

\* the optional keys, in their fixed order, that td holds with a non-empty value
FilledKeys(td) ==
    LET Filled(key) == key \in DOMAIN td /\ td[key] # ""
    IN SelectSeq(<<"author", "institution", "course", "instructor", "date">>, Filled)

\* the title page of td
TitlePageDirectives(td) ==
    <<BlankDirective, BlankDirective, BlankDirective, TitleDirective(td.title), BlankDirective>>
    \o [k \in 1..Len(FilledKeys(td)) |-> FieldDirective(td[FilledKeys(td)[k]])]

\* C14: for a title_data holding a title, _create_title_page emits three blank
\* paragraphs, the centered bold title, one blank paragraph, then exactly one
\* centered paragraph for each of author, institution, course, instructor, date
\* that is present with a non-empty value, in that key order; an absent or
\* empty key gives no paragraph.
C14_TitlePage ==
    [][(pc = "title_page" /\ "title" \in DOMAIN title_data) =>
         /\ doc' = doc \o TitlePageDirectives(title_data)
         /\ pc' = "page_break_body"]_vars

\* the title page was made for a title_data with an empty key, an absent key
\* and three filled ones
C14_Witness ==
    /\ pc = "page_break_body"
    /\ "title" \in DOMAIN title_data
    /\ \E key \in DOMAIN title_data : title_data[key] = ""
    /\ "instructor" \notin DOMAIN title_data
    /\ FilledKeys(title_data) = <<"author", "course", "date">>
    /\ Len(doc) = 8
    /\ doc[6] = FieldDirective(title_data.author)
    /\ doc[7] = FieldDirective(title_data.course)
    /\ doc[8] = FieldDirective(title_data.date)

\* the block under the cursor is a level 4/5 heading and the block after it, if
\* there is one, is not a paragraph
StandaloneHeadingNext ==
    /\ pc = "body"
    /\ body_i < Len(body_content)
    /\ body_content[body_i + 1].type = "heading"
    /\ body_content[body_i + 1].level \in {4, 5}
    /\ (body_i + 2 <= Len(body_content) => body_content[body_i + 2].type # "paragraph")

RECURSIVE RunsText(_)
\* the text of a paragraph as it reads: its runs' texts one after the other
RunsText(runs) == IF runs = <<>> THEN "" ELSE Head(runs).text \o RunsText(Tail(runs))

\* the step rendered the heading h as one more paragraph, indented, reading as
\* the heading text with a period appended exactly when the text has none at its end
RenderedStandalone(h) ==
    /\ Len(doc') = Len(doc) + 1
    /\ SubSeq(doc', 1, Len(doc)) = doc
    /\ doc'[Len(doc')].left_indent = "0.5in"
    /\ RunsText(doc'[Len(doc')].runs) =
         (IF h.text # "" /\ CharAt(h.text, Len(h.text)) = "." THEN h.text ELSE h.text \o ".")

\* C15: in _create_body a level-4 or level-5 heading that is not immediately
\* followed by a paragraph block is rendered standalone with exactly one
\* trailing period: a period is appended iff the heading text does not already
\* end with '.'.
C15_StandalonePeriod ==
    [][StandaloneHeadingNext =>
         /\ pc' = "body"
         /\ body_i' = body_i + 1
         /\ RenderedStandalone(body_content[body_i + 1])]_vars

\* line k is one the claim has appended to the buffer: processed in body mode,
\* non-empty, not a marker, not a heading, without a backtick, not the bare "---"
AppendedAsClaimed(k) ==
    /\ BodyModeAt(k)
    /\ StrippedLine(k) # ""
    /\ ~TakenByMarkerRule(k)
    /\ ~StartsWith(StrippedLine(k), "#")
    /\ ~Contains(StrippedLine(k), Backtick)
    /\ StrippedLine(k) # "---"

\* the places <<n, m>> at which line k went into Paragraph block n as its m-th line
PlacesOf(k) ==
    { nm \in (1..Len(body_src)) \X (1..Len(lines)) :
        /\ nm[2] <= Len(body_src[nm[1]])
        /\ body_src[nm[1]][nm[2]] = k
        /\ body_content[nm[1]].type = "paragraph"
        /\ body_content[nm[1]].text =
             Join(" ", [m \in 1..Len(body_src[nm[1]]) |-> StrippedLine(body_src[nm[1]][m])]) }

\* C16: in body mode every non-empty line that is not a references marker, not
\* a heading, holds no backtick and is not exactly "---" is appended (trimmed)
\* to the paragraph buffer, and every such line appears exactly once, in order,
\* in the text of exactly one later Paragraph block, also at the end of input.
C16_EveryTextLineKept ==
    /\ [][(LineNext /\ AppendedAsClaimed(parse_i + 1)) =>
            /\ current_paragraph' = Append(current_paragraph, StrippedLine(parse_i + 1))
            /\ body_content' = body_content]_vars
    /\ [](pc # "parse" =>
            \A k \in 1..Len(lines) : AppendedAsClaimed(k) => Cardinality(PlacesOf(k)) = 1)

RECURSIVE RunInMerges(_, _)
\* the number of run-in merges in the blocks of body from 0-based index i on,
\* reading left to right: a level 4/5 heading takes the paragraph after it
RunInMerges(body, i) ==
    IF i >= Len(body) THEN 0
    ELSE IF /\ body[i + 1].type = "heading"
            /\ body[i + 1].level \in {4, 5}
            /\ i + 2 <= Len(body)
            /\ body[i + 2].type = "paragraph"
    THEN 1 + RunInMerges(body, i + 2)
    ELSE RunInMerges(body, i + 1)

\* the loop of _create_body is over and the references page break was added
BodyLoopLeft == pc \in {"references", "save", "done"}

\* C17: for every block sequence the cursor loop of _create_body ends with the
\* cursor equal to the sequence length and every block is consumed exactly
\* once: each pass adds exactly one output paragraph and moves the cursor past
\* the block it rendered, and past the paragraph merged into it when the pass
\* was a run-in merge, never beyond the end; the loop is left only with the
\* cursor at the length, and the output paragraphs then number the blocks
\* minus the run-in merges.
C17_EveryBlockConsumedOnce ==
    /\ [][pc = "body" =>
            IF body_i < Len(body_content)
            THEN /\ pc' = "body"
                 /\ Len(doc') = Len(doc) + 1
                 /\ body_i' = body_i + (IF HeadingThenParagraph THEN 2 ELSE 1)
                 /\ body_i' <= Len(body_content)
            ELSE /\ body_i = Len(body_content)
                 /\ pc' = "references"]_vars
    /\ [](BodyLoopLeft =>
            /\ body_i = Len(body_content)
            /\ Len(BodyDirectives) = Len(body_content) - RunInMerges(body_content, 0))

\* C18: in the output of create_document the units come in the order title
\* page, page break, body, page break, references; every page break is either
\* immediately after the last title-page paragraph or immediately before the
\* 'References' heading, whether the body and the references are empty or not.
C18_PageBreakPlacement ==
    Rendered =>
        LET title == TitlePageDirectives(title_data)
            second == Min(PageBreaks \ {Len(title) + 1})
        IN /\ Cardinality(PageBreaks) = 2
           /\ SubSeq(doc, 1, Len(title)) = title
           /\ Len(title) + 1 \in PageBreaks
           /\ Len(BodyDirectives) = Len(body_content) - RunInMerges(body_content, 0)
           /\ SubSeq(doc, second + 1, Len(doc)) = ReferenceDirectives(references)
           /\ \A k \in PageBreaks :
                \/ k = Len(title) + 1
                \/ (k < Len(doc) /\ doc[k + 1] = ReferencesHeadingDirective)

\* the Paragraph block a flush makes of the buffer
BufferParagraph == Paragraph(Join(" ", current_paragraph))

\* C19 (as claimed): in_references is never reset, and from the assignment that
\* makes it true on the paragraph buffer is empty and body_content is not
\* modified. In the marker branch the assignment (lines 253, 256) comes before
\* the flush (lines 259-264), so at the assignment the buffer and body_content
\* are the ones the iteration started with.
C19_Original ==
    [][pc = "parse" =>
         /\ in_references => in_references'
         /\ in_references' =>
              /\ current_paragraph = <<>>
              /\ current_paragraph' = <<>>
              /\ body_content' = body_content
              /\ Len(references') >= Len(references)
              /\ SubSeq(references', 1, Len(references)) = references]_vars

\* C19 (amended): in_references is monotonic; the iteration that sets it
\* flushes a non-empty buffer into body_content as one more Paragraph and adds
\* no reference; from the end of that iteration on no later line resets the
\* flag, the paragraph buffer is empty, and body_content is never modified
\* again: only the references list can grow.
C19_OnceInReferences ==
    [][pc = "parse" =>
         /\ in_references =>
              /\ in_references'
              /\ current_paragraph = <<>>
              /\ current_paragraph' = <<>>
              /\ body_content' = body_content
              /\ Len(references') >= Len(references)
              /\ SubSeq(references', 1, Len(references)) = references
         /\ (~in_references /\ in_references') =>
              /\ current_paragraph' = <<>>
              /\ body_content' = IF current_paragraph = <<>> THEN body_content
                                 ELSE Append(body_content, BufferParagraph)
              /\ references' = references]_vars

\* a marker on line 2 ended the body after one buffered line, and line 3, which
\* starts lower-case, went to the references: the body is the one flushed
\* Paragraph, the buffer is empty
C19_Witness ==
    /\ pc = "parse"
    /\ parse_i = 3
    /\ PlainLine(1)
    /\ EntersReferences(2)
    /\ StrippedLine(3) # ""
    /\ ~IsUpper(CharAt(StrippedLine(3), 1))
    /\ in_references
    /\ body_content = <<Paragraph(StrippedLine(1))>>
    /\ current_paragraph = <<>>
    /\ references = <<StrippedLine(3)>>

=============================================================================
